---- MODULE Spec2Model ----
(***************************************************************************)
(* A model of FileSearcher-Brit (src/filesearch.go): the match predicate   *)
(* isMatch with the string functions it relies on, the extension map built *)
(* by main, the two traversals scanFlat and scanRecursive (the latter with *)
(* the control flow of filepath.WalkDir), and main's exit and output path. *)
(*                                                                         *)
(* Strings are sequences of one-character strings, so that Split, Atoi,    *)
(* TrimSpace, ToLower and filepath.Ext are computed character by character.*)
(***************************************************************************)
EXTENDS Integers, Sequences, FiniteSets, TLC

VARIABLES
    cfg,            \* Config (filesearch.go:33-42), immutable after parseFlags
    exts,           \* allowedExts, the map main builds from cfg.Extensions
    pc,             \* position of main / of the pure-function harness
    exitCode,       \* -1 while running, afterwards the process status
    scanErr,        \* the error value scanFlat / scanRecursive returned
    results,        \* []FileResult accumulated by the running scan
    scannedCount,   \* global scannedCount
    matchCount,     \* global matchCount
    entries,        \* scanFlat: the entries of os.ReadDir not yet iterated
    stack,          \* scanRecursive: the walkDir frames (one per open directory)
    rootState,      \* what the file system holds at cfg.Dir
    outFile,        \* the report file in the working directory
    outName,        \* the file name saveJSON / saveMarkdown passed to os.Create
    fs,             \* the directory tree under cfg.Dir, path -> node
    createErr,      \* os.Create of the report file returned an error
    visited,        \* history: every entry the scan's loop or callback was handed
    gen,            \* history: the pieces the inputs were assembled from
    file,           \* the os.FileInfo handed to isMatch by the harness
    matched         \* the harness's record of isMatch's result

vars == <<cfg, exts, pc, exitCode, scanErr, results, scannedCount, matchCount,
          entries, stack, rootState, outFile, outName, fs, createErr, visited,
          gen, file, matched>>

scanVars == <<exitCode, scanErr, results, scannedCount, matchCount, entries,
              stack, rootState, outFile, outName, fs, createErr, visited>>

----------------------------------------------------------------------------
(* Bounds of the model.                                                    *)

\* longest list of '/'-separated parts the combined-date string is built from
MaxParts == 3
\* longest list of ','-separated entries the extension option is built from
MaxExts == 2
\* most files and directories the tree under the target directory holds
MaxNodes == 3

----------------------------------------------------------------------------
(* Strings.                                                                *)

Str0 == <<>>

DigitChars == <<"0", "1", "2", "3", "4", "5", "6", "7", "8", "9">>

IsDigit(ch) == \E k \in 1..Len(DigitChars) : DigitChars[k] = ch

DigitVal(ch) == (CHOOSE k \in 1..Len(DigitChars) : DigitChars[k] = ch) - 1

\* unicode.ToLower on the letters the model's alphabet has
LowerChar(ch) ==
    CASE ch = "G" -> "g"
      [] ch = "P" -> "p"
      [] ch = "A" -> "a"
      [] ch = "M" -> "m"
      [] ch = "D" -> "d"
      [] OTHER -> ch

\* strings.ToLower
ToLower(s) == [i \in 1..Len(s) |-> LowerChar(s[i])]

IsSpace(ch) == ch = " "

\* strings.TrimSpace: leading and trailing white space removed
RECURSIVE TrimLeft(_)
TrimLeft(s) ==
    IF s # <<>> /\ IsSpace(Head(s)) THEN TrimLeft(Tail(s)) ELSE s

RECURSIVE TrimRight(_)
TrimRight(s) ==
    IF s # <<>> /\ IsSpace(s[Len(s)])
    THEN TrimRight(SubSeq(s, 1, Len(s) - 1))
    ELSE s

TrimSpace(s) == TrimRight(TrimLeft(s))

\* strings.HasPrefix
HasPrefix(s, p) == Len(s) >= Len(p) /\ SubSeq(s, 1, Len(p)) = p

\* strings.Split(s, sep) for a one-character separator: every substring
\* between separators, so n separators give n+1 parts and "" gives [""]
RECURSIVE SplitFrom(_, _, _)
SplitFrom(s, sep, cur) ==
    IF s = <<>> THEN <<cur>>
    ELSE IF Head(s) = sep THEN <<cur>> \o SplitFrom(Tail(s), sep, <<>>)
    ELSE SplitFrom(Tail(s), sep, Append(cur, Head(s)))

Split(s, sep) == SplitFrom(s, sep, <<>>)

\* strings.ReplaceAll(s, old, new) for one-character old and new
ReplaceAll(s, old, new) == [i \in 1..Len(s) |-> IF s[i] = old THEN new ELSE s[i]]

\* filepath.Ext: the suffix beginning at the final dot of the name, "" when
\* the name has no dot (a file name holds no path separator)
RECURSIVE ExtFrom(_, _)
ExtFrom(name, i) ==
    IF i < 1 THEN <<>>
    ELSE IF name[i] = "." THEN SubSeq(name, i, Len(name))
    ELSE ExtFrom(name, i - 1)

Ext(name) == ExtFrom(name, Len(name))

\* the decimal value of a digit string, most significant digit first
RECURSIVE DigitsVal(_, _)
DigitsVal(s, acc) ==
    IF s = <<>> THEN acc ELSE DigitsVal(Tail(s), acc * 10 + DigitVal(Head(s)))

\* strconv.Atoi: an optional sign and at least one decimal digit; on a syntax
\* error the value is 0 and err is set.  (A range error needs more than 18
\* digits, which no string of the model has.)
Atoi(s) ==
    LET neg  == s # <<>> /\ Head(s) = "-"
        body == IF s # <<>> /\ Head(s) \in {"+", "-"} THEN Tail(s) ELSE s
        ok   == body # <<>> /\ \A i \in 1..Len(body) : IsDigit(body[i])
        mag  == IF ok THEN DigitsVal(body, 0) ELSE 0
    IN  [val |-> IF neg THEN 0 - mag ELSE mag, err |-> ~ok]

----------------------------------------------------------------------------
(* main, step 3: the extension map (filesearch.go:72-83).                  *)

NormalizeExtMutNoLower(p) ==
    LET ext == TrimSpace(p)
    IN  IF HasPrefix(ext, <<".">>) THEN ext ELSE <<".">> \o ext

\* one iteration of the loop: trim, lower-case, prefix the dot if missing
NormalizeExt(p) ==
    LET ext == ToLower(TrimSpace(p))
    IN  IF HasPrefix(ext, <<".">>) THEN ext ELSE <<".">> \o ext

\* allowedExts as the set of its keys
PrepareExts(extensions) ==
    IF extensions # Str0
    THEN LET parts == Split(extensions, ",")
         IN  {NormalizeExt(parts[i]) : i \in 1..Len(parts)}
    ELSE {}

----------------------------------------------------------------------------
(* isMatch (filesearch.go:243-284).                                        *)

\* 1. Extension Check
ExtCheck(info, allowed) ==
    IF Cardinality(allowed) > 0
    THEN ToLower(Ext(info.Name)) \in allowed
    ELSE TRUE

\* if len(parts) == 3
AllDateUsed(parts) == Len(parts) = 3

AllDateMatchMutNoYear(parts, mod) ==
    LET reqD == Atoi(parts[1]).val
        reqM == Atoi(parts[2]).val
    IN  ~(reqD # mod.day \/ reqM # mod.month)

\* the three Atoi calls, whose errors are dropped, and the comparison
AllDateMatch(parts, mod) ==
    LET reqD == Atoi(parts[1]).val
        reqM == Atoi(parts[2]).val
        reqY == Atoi(parts[3]).val
    IN  ~(reqD # mod.day \/ reqM # mod.month \/ reqY # mod.year)

PartialMatchMutNoDay(c, mod) ==
    /\ ~(c.Year # 0 /\ c.Year # mod.year)
    /\ ~(c.Month # 0 /\ c.Month # mod.month)

\* Partial Logic
PartialMatch(c, mod) ==
    /\ ~(c.Year # 0 /\ c.Year # mod.year)
    /\ ~(c.Month # 0 /\ c.Month # mod.month)
    /\ ~(c.Day # 0 /\ c.Day # mod.day)

isMatchMutStrictAllDate(info, c, allowed) ==
    IF ~ExtCheck(info, allowed) THEN FALSE
    ELSE LET parts == Split(c.AllDate, "/")
         IN  IF c.AllDate # Str0
             THEN AllDateUsed(parts) /\ AllDateMatch(parts, info.ModTime)
             ELSE PartialMatch(c, info.ModTime)

isMatch(info, c, allowed) ==
    IF ~ExtCheck(info, allowed) THEN FALSE
    ELSE LET parts == Split(c.AllDate, "/")
         IN  IF c.AllDate # Str0 /\ AllDateUsed(parts)
             THEN AllDateMatch(parts, info.ModTime)
             ELSE PartialMatch(c, info.ModTime)

----------------------------------------------------------------------------
(* Inputs of the pure-function harness.  Every option string is assembled  *)
(* from pieces whose meaning is known by construction (gen), and the code  *)
(* is then run on the assembled string.                                    *)

\* the decimal digits of a natural number (how an integer is written)
RECURSIVE Itoa(_)
Itoa(n) ==
    IF n < 10 THEN <<DigitChars[n + 1]>>
    ELSE Append(Itoa(n \div 10), DigitChars[(n % 10) + 1])

RECURSIVE JoinWith(_, _)
JoinWith(ss, sep) ==
    IF ss = <<>> THEN <<>>
    ELSE IF Len(ss) = 1 THEN ss[1]
    ELSE ss[1] \o <<sep>> \o JoinWith(Tail(ss), sep)

SeqsUpTo(S, n) == UNION {[1..k -> S] : k \in 0..n}

Texts(ps) == [i \in 1..Len(ps) |-> ps[i].txt]

\* numbers that occur as day, month or year
Nums == {1, 12, 2012}

\* the parts a combined-date string is made of: integers as written by
\* Itoa, one zero-padded integer, and parts that are no integer
DateParts ==
    {[txt |-> Itoa(n), int |-> TRUE, val |-> n] : n \in Nums}
    \cup {[txt |-> <<"0">> \o Itoa(1), int |-> TRUE, val |-> 1],
          [txt |-> <<"a">>, int |-> FALSE, val |-> 0],
          [txt |-> <<>>, int |-> FALSE, val |-> 0]}

\* entries of the extension option with the map key each stands for
ExtEntries ==
    {[txt |-> <<"g">>, norm |-> <<".", "g">>],
     [txt |-> <<".", "g">>, norm |-> <<".", "g">>],
     [txt |-> <<"G">>, norm |-> <<".", "g">>],
     [txt |-> <<" ", "g", " ">>, norm |-> <<".", "g">>],
     [txt |-> <<"p">>, norm |-> <<".", "p">>],
     [txt |-> <<>>, norm |-> <<".">>]}

\* file names with the lower-cased extension each carries
NameGens ==
    {[txt |-> <<"a", ".", "g">>, low |-> <<".", "g">>],
     [txt |-> <<"a", ".", "G">>, low |-> <<".", "g">>],
     [txt |-> <<"a", ".", "p">>, low |-> <<".", "p">>],
     [txt |-> <<"a", ".", "p", ".", "g">>, low |-> <<".", "g">>],
     [txt |-> <<".", "g">>, low |-> <<".", "g">>],
     [txt |-> <<"a", ".">>, low |-> <<".">>],
     [txt |-> <<"a">>, low |-> <<>>]}

ModTimes == [year : {12, 2012}, month : {1, 12}, day : {1, 12}]

\* values of the -o option
FmtJSON == <<"j", "s", "o", "n">>

FmtMD == <<"m", "d">>

FmtTabular == <<"t", "a", "b", "u", "l", "a", "r">>

Formats == {FmtTabular, FmtJSON, FmtMD, <<"M", "D">>}

MkConfig(g, day, month, year, rec, fmt) ==
    [Recursive    |-> rec,
     Extensions   |-> JoinWith(Texts(g.ext), ","),
     AllDate      |-> JoinWith(Texts(g.date), "/"),
     Day          |-> day,
     Month        |-> month,
     Year         |-> year,
     OutputFormat |-> fmt]

MkFile(g, mod) == [Name |-> g.name.txt, ModTime |-> mod]

NoFile == [Name |-> <<>>, ModTime |-> [year |-> 0, month |-> 0, day |-> 0]]

\* a readable target directory with nothing in it
EmptyTree == [p \in {<<>>} |-> [isDir |-> TRUE, err |-> FALSE, mod |-> NoFile.ModTime]]

\* the scan's variables while only the harness runs
ScanIdle ==
    /\ exitCode = -1
    /\ scanErr = FALSE
    /\ results = <<>>
    /\ scannedCount = 0
    /\ matchCount = 0
    /\ entries = <<>>
    /\ stack = <<>>
    /\ rootState = "ok"
    /\ outFile = "absent"
    /\ outName = Str0
    /\ visited = <<>>
    /\ fs = EmptyTree
    /\ createErr = FALSE

\* date harness: every combined-date string of up to MaxParts parts, every
\* combination of set and unset independent fields, every modification date
InitDate ==
    /\ gen \in [date : SeqsUpTo(DateParts, MaxParts),
                ext  : {<<>>, <<[txt |-> <<"g">>, norm |-> <<".", "g">>]>>},
                name : {[txt |-> <<"a", ".", "g">>, low |-> <<".", "g">>],
                        [txt |-> <<"a", ".", "p">>, low |-> <<".", "p">>]}]
    /\ \E day \in {0, 1}, month \in {0, 12}, year \in {0, 2012} :
           cfg = MkConfig(gen, day, month, year, FALSE, FmtTabular)
    /\ \E mod \in ModTimes : file = MkFile(gen, mod)
    /\ exts = {}
    /\ matched = FALSE
    /\ pc = "match"
    /\ ScanIdle

\* extension harness: every extension option of up to MaxExts entries and
\* every file name, with and without a date filter
InitExt ==
    /\ gen \in [date : {<<>>},
                ext  : SeqsUpTo(ExtEntries, MaxExts),
                name : NameGens]
    /\ \E year \in {0, 2012} : cfg = MkConfig(gen, 0, 0, year, FALSE, FmtTabular)
    /\ \E mod \in {m \in ModTimes : m.month = 1 /\ m.day = 1} : file = MkFile(gen, mod)
    /\ exts = {}
    /\ matched = FALSE
    /\ pc = "match"
    /\ ScanIdle

\* the harness builds the extension map as main does and calls isMatch once
MatchStep ==
    /\ pc = "match"
    /\ exts' = PrepareExts(cfg.Extensions)
    /\ matched' = isMatch(file, cfg, exts')
    /\ pc' = "matched"
    /\ UNCHANGED <<cfg, gen, file>>
    /\ UNCHANGED scanVars

NextMatch == MatchStep

SpecDate == InitDate /\ [][NextMatch]_vars

SpecExt == InitExt /\ [][NextMatch]_vars

----------------------------------------------------------------------------
(* The file system under the target directory.  A path is the sequence of  *)
(* names below cfg.Dir, <<>> being the target directory itself.  A node is *)
(* a directory (err: os.ReadDir on it fails) or another entry (err: its    *)
(* Info() fails; mod: its modification date).                              *)

TreeNames == {<<"a", ".", "g">>, <<"b", ".", "p">>}

ScanMods == {[year |-> 2012, month |-> 1, day |-> 1],
             [year |-> 12, month |-> 1, day |-> 1]}

NodeLabels ==
    {[isDir |-> TRUE, err |-> e, mod |-> NoFile.ModTime] : e \in BOOLEAN}
    \cup {[isDir |-> FALSE, err |-> TRUE, mod |-> NoFile.ModTime]}
    \cup {[isDir |-> FALSE, err |-> FALSE, mod |-> m] : m \in ScanMods}

Parent(p) == SubSeq(p, 1, Len(p) - 1)

Last(p) == p[Len(p)]

\* the sets of at most k paths that hold the parent of each of their paths
RECURSIVE Shapes(_)
Shapes(k) ==
    IF k = 0 THEN {{}}
    ELSE LET prev == Shapes(k - 1)
         IN  prev \cup
             {S \cup {Append(q, n)} : S \in prev, q \in UNION prev \cup {<<>>},
                                      n \in TreeNames}

WellShaped(S) == \A p \in S : Len(p) > 1 => Parent(p) \in S

Trees ==
    UNION {
        {t \in [S \cup {<<>>} -> NodeLabels] :
            /\ t[<<>>].isDir
            /\ \A p \in S : Len(p) > 1 => t[Parent(p)].isDir}
        : S \in {S \in Shapes(MaxNodes) : Cardinality(S) <= MaxNodes /\ WellShaped(S)}}

\* byte order of the characters file names are made of
Alphabet == <<" ", "+", ",", "-", ".", "/", "0", "1", "2", "3", "4", "5",
              "6", "7", "8", "9", "A", "G", "P", "a", "b", "g", "p">>

CharOrd(ch) == CHOOSE k \in 1..Len(Alphabet) : Alphabet[k] = ch

RECURSIVE NameLess(_, _)
NameLess(a, b) ==
    IF b = <<>> THEN FALSE
    ELSE IF a = <<>> THEN TRUE
    ELSE IF Head(a) = Head(b) THEN NameLess(Tail(a), Tail(b))
    ELSE CharOrd(Head(a)) < CharOrd(Head(b))

RECURSIVE SortNames(_)
SortNames(S) ==
    IF S = {} THEN <<>>
    ELSE LET m == CHOOSE x \in S : \A y \in S \ {x} : NameLess(x, y)
         IN  <<m>> \o SortNames(S \ {m})

\* os.ReadDir(p) when it succeeds: the directory's entries sorted by filename
ReadDir(p) ==
    LET names == SortNames({n \in TreeNames : Append(p, n) \in DOMAIN fs})
    IN  [i \in 1..Len(names) |->
            [path |-> Append(p, names[i]), isDir |-> fs[Append(p, names[i])].isDir]]

\* entry.Info() / d.Info() when it succeeds
InfoOf(p) == [Name |-> Last(p), ModTime |-> fs[p].mod]

buildResultMutBaseOnly(dir, info) ==
    [Name |-> info.Name, Path |-> <<info.Name>>, ModTime |-> info.ModTime]

\* buildResult (the size and the formatted date are left out)
buildResult(dir, info) ==
    [Name |-> info.Name, Path |-> Append(dir, info.Name), ModTime |-> info.ModTime]

Visit(e, infoOK) == [path |-> e.path, isDir |-> e.isDir, infoOK |-> infoOK]

----------------------------------------------------------------------------
(* main (filesearch.go:59-139).                                            *)

ScanConfigs ==
    {MkConfig([date |-> <<>>, ext |-> x, name |-> 0], 0, 0, y, r, f) :
        x \in {<<>>, <<[txt |-> <<"g">>, norm |-> <<".", "g">>]>>},
        y \in {0, 2012}, r \in BOOLEAN, f \in {FmtTabular, FmtJSON, FmtMD}}

Init ==
    /\ cfg \in ScanConfigs
    /\ rootState \in {"missing", "noaccess", "ok"}
    /\ fs \in IF rootState = "ok" THEN Trees ELSE {EmptyTree}
    /\ outFile \in {"absent", "stale"}
    /\ outName = Str0
    /\ gen = [date |-> <<>>, ext |-> <<>>, name |-> [txt |-> <<>>, low |-> <<>>]]
    /\ file = NoFile
    /\ matched = FALSE
    /\ exts = {}
    /\ pc = "start"
    /\ exitCode = -1
    /\ scanErr = FALSE
    /\ results = <<>>
    /\ scannedCount = 0
    /\ matchCount = 0
    /\ entries = <<>>
    /\ stack = <<>>
    /\ createErr = FALSE
    /\ visited = <<>>

\* steps 2 and 3: os.Stat on the target, exit 1 if it does not exist (any
\* other Stat error passes), then the extension map
Validate ==
    /\ pc = "start"
    /\ IF rootState = "missing"
       THEN /\ exitCode' = 1
            /\ pc' = "done"
            /\ exts' = exts
       ELSE /\ exitCode' = exitCode
            /\ pc' = "scan"
            /\ exts' = PrepareExts(cfg.Extensions)
    /\ UNCHANGED <<cfg, scanErr, results, scannedCount, matchCount, entries, stack,
                   rootState, outFile, outName, fs, createErr, visited, gen, file, matched>>

\* os.ReadDir / os.Lstat on the target directory fails
RootUnreadable == rootState = "noaccess" \/ fs[<<>>].err

----------------------------------------------------------------------------
(* scanFlat (filesearch.go:156-188).                                       *)

\* entries, err := os.ReadDir(c.Dir); if err != nil { return nil, err }
FlatReadDir ==
    /\ pc = "scan" /\ ~cfg.Recursive
    /\ IF RootUnreadable
       THEN /\ scanErr' = TRUE
            /\ entries' = <<>>
            /\ pc' = "scanned"
       ELSE /\ scanErr' = FALSE
            /\ entries' = ReadDir(<<>>)
            /\ pc' = "flat"
    /\ UNCHANGED <<cfg, exts, exitCode, results, scannedCount, matchCount, stack,
                   rootState, outFile, outName, fs, createErr, visited, gen, file, matched>>

\* one iteration of the loop over entries
FlatEntry ==
    /\ pc = "flat" /\ entries # <<>>
    /\ LET e      == Head(entries)
           infoOK == ~e.isDir /\ ~fs[e.path].err
           hit    == infoOK /\ isMatch(InfoOf(e.path), cfg, exts)
       IN  /\ scannedCount' = scannedCount + 1
           /\ matchCount' = IF hit THEN matchCount + 1 ELSE matchCount
           /\ results' = IF hit
                         THEN Append(results, buildResult(<<>>, InfoOf(e.path)))
                         ELSE results
           /\ visited' = Append(visited, Visit(e, infoOK))
    /\ entries' = Tail(entries)
    /\ UNCHANGED <<cfg, exts, pc, exitCode, scanErr, stack, rootState, outFile, outName, fs,
                   createErr, gen, file, matched>>

\* return results, nil
FlatReturn ==
    /\ pc = "flat" /\ entries = <<>>
    /\ pc' = "scanned"
    /\ UNCHANGED <<cfg, exts, exitCode, scanErr, results, scannedCount, matchCount,
                   entries, stack, rootState, outFile, outName, fs, createErr, visited, gen,
                   file, matched>>

----------------------------------------------------------------------------
(* scanRecursive (filesearch.go:191-231) inside filepath.WalkDir.  A frame *)
(* of the stack is one running walkDir loop: the entries of a directory    *)
(* that are still to be walked.  The callback returns "nil" or "SkipDir";  *)
(* "err" stands for any other error value.                                 *)

CallbackOnErrMutPropagate == "err"

\* if err != nil { return filepath.SkipDir }
CallbackOnErr == "SkipDir"

CallbackOnDirMutSkip == "SkipDir"

\* if d.IsDir() { ...; return nil }
CallbackOnDir == "nil"

\* walkDir: a SkipDir returned for a directory is a successful skip
WalkDirRet(ret, isDir) == IF ret = "SkipDir" /\ isDir THEN "nil" ELSE ret

\* the frames left after walkDir of the top frame's first entry returned ret:
\* nil continues the loop (an exhausted loop returns nil to its own caller),
\* SkipDir breaks the loop, any other error is returned from every loop
RECURSIVE Unwind(_, _)
Unwind(st, ret) ==
    IF st = <<>> THEN [stack |-> <<>>, ret |-> ret]
    ELSE LET top  == st[Len(st)]
             rest == SubSeq(st, 1, Len(st) - 1)
         IN  IF ret = "nil"
             THEN IF Len(top) > 1
                  THEN [stack |-> Append(rest, Tail(top)), ret |-> "nil"]
                  ELSE Unwind(rest, "nil")
             ELSE IF ret = "SkipDir" THEN Unwind(rest, "nil")
             ELSE Unwind(rest, ret)

\* WalkDir's own return: SkipDir from the root is no error
WalkErr(ret) == ret # "nil" /\ ret # "SkipDir"

\* filepath.WalkDir starts: os.Lstat(root); on an error the callback is
\* called once with it, otherwise walkDir runs on the root
WalkStart ==
    /\ pc = "scan" /\ cfg.Recursive
    /\ IF rootState = "noaccess"
       THEN /\ scanErr' = WalkErr(CallbackOnErr)
            /\ stack' = <<>>
            /\ pc' = "scanned"
       ELSE /\ scanErr' = FALSE
            /\ stack' = << <<[path |-> <<>>, isDir |-> TRUE]>> >>
            /\ pc' = "walk"
    /\ UNCHANGED <<cfg, exts, exitCode, results, scannedCount, matchCount, entries,
                   rootState, outFile, outName, fs, createErr, visited, gen, file, matched>>

\* walkDir on the next entry: the callback, and for a directory os.ReadDir,
\* on whose error the callback is called a second time
WalkEntry ==
    /\ pc = "walk" /\ stack # <<>>
    /\ LET e      == Head(stack[Len(stack)])
           infoOK == ~e.isDir /\ ~fs[e.path].err
           hit    == infoOK /\ isMatch(InfoOf(e.path), cfg, exts)
           first  == IF e.isDir THEN CallbackOnDir ELSE "nil"
           opens  == e.isDir /\ first = "nil" /\ ~fs[e.path].err
           ret    == IF first # "nil" \/ ~e.isDir THEN WalkDirRet(first, e.isDir)
                     ELSE IF fs[e.path].err THEN WalkDirRet(CallbackOnErr, e.isDir)
                     ELSE "nil"
           kids   == ReadDir(e.path)
           after  == IF opens /\ kids # <<>>
                     THEN [stack |-> Append(stack, kids), ret |-> "nil"]
                     ELSE Unwind(stack, ret)
       IN  /\ scannedCount' = IF e.isDir THEN scannedCount ELSE scannedCount + 1
           /\ matchCount' = IF hit THEN matchCount + 1 ELSE matchCount
           /\ results' = IF hit
                         THEN Append(results, buildResult(Parent(e.path), InfoOf(e.path)))
                         ELSE results
           /\ visited' = Append(visited, Visit(e, infoOK))
           /\ stack' = after.stack
           /\ scanErr' = WalkErr(after.ret)
           /\ pc' = IF after.stack = <<>> THEN "scanned" ELSE "walk"
    /\ UNCHANGED <<cfg, exts, exitCode, entries, rootState, outFile, outName, fs, createErr,
                   gen, file, matched>>

----------------------------------------------------------------------------
(* main after the scan, handleOutput, saveJSON and saveMarkdown            *)
(* (filesearch.go:115-138, 286-356).                                       *)

\* switch strings.ToLower(c.OutputFormat)
handleOutput(format) ==
    CASE ToLower(format) = FmtJSON -> "saveJSON"
      [] ToLower(format) = FmtMD -> "saveMarkdown"
      [] OTHER -> "printTabular"

CreateMutExclusive(old, ok) == IF ok /\ old = "absent" THEN "report" ELSE old

\* os.Create: the file is created or truncated, or an error leaves it as it is
Create(old, ok) == IF ok THEN "report" ELSE old

\* the suffix saveJSON and saveMarkdown hand to generateFilename
SaveSuffix(route) == IF route = "saveJSON" THEN FmtJSON ELSE FmtMD

generateFilenameMutNoSentinel(prefix, extensions, suffix) ==
    prefix \o <<"_">> \o ReplaceAll(extensions, ",", "_") \o <<".">> \o suffix

\* generateFilename: fmt.Sprintf("%s_%s.%s", prefix, extPart, suffix)
generateFilename(prefix, extensions, suffix) ==
    LET extPart == IF extensions # Str0
                   THEN ReplaceAll(extensions, ",", "_")
                   ELSE <<"a", "l", "l">>
    IN  prefix \o <<"_">> \o extPart \o <<".">> \o suffix

\* the prefix saveJSON and saveMarkdown pass
Prefix == <<"o", "u", "t", "p", "u", "t">>

\* the first line of saveJSON / saveMarkdown
SaveName(route, extensions) == generateFilename(Prefix, extensions, SaveSuffix(route))

Finish ==
    /\ pc = "scanned"
    /\ pc' = "done"
    /\ IF scanErr
       THEN /\ exitCode' = 1
            /\ UNCHANGED <<outFile, outName, createErr>>
       ELSE /\ exitCode' = 0
            /\ IF Len(results) = 0 \/ handleOutput(cfg.OutputFormat) = "printTabular"
               THEN UNCHANGED <<outFile, outName, createErr>>
               ELSE \E ok \in BOOLEAN :
                        /\ outName' = SaveName(handleOutput(cfg.OutputFormat),
                                               cfg.Extensions)
                        /\ outFile' = Create(outFile, ok)
                        /\ createErr' = ~ok
    /\ UNCHANGED <<cfg, exts, scanErr, results, scannedCount, matchCount, entries,
                   stack, rootState, fs, visited, gen, file, matched>>

Next ==
    \/ Validate
    \/ FlatReadDir
    \/ FlatEntry
    \/ FlatReturn
    \/ WalkStart
    \/ WalkEntry
    \/ Finish

Spec == Init /\ [][Next]_vars

----------------------------------------------------------------------------
(* File-name harness: every extension option of up to MaxExts entries and  *)
(* both file-producing formats, handed to saveJSON / saveMarkdown's first  *)
(* line.                                                                   *)

InitName ==
    /\ gen \in [date : {<<>>},
                ext  : SeqsUpTo(ExtEntries, MaxExts),
                name : {[txt |-> <<>>, low |-> <<>>]}]
    /\ \E f \in Formats \ {FmtTabular} : cfg = MkConfig(gen, 0, 0, 0, FALSE, f)
    /\ file = NoFile
    /\ exts = {}
    /\ matched = FALSE
    /\ pc = "name"
    /\ ScanIdle

NameStep ==
    /\ pc = "name"
    /\ outName' = SaveName(handleOutput(cfg.OutputFormat), cfg.Extensions)
    /\ pc' = "named"
    /\ UNCHANGED <<cfg, exts, exitCode, scanErr, results, scannedCount, matchCount,
                   entries, stack, rootState, outFile, fs, createErr, visited, gen,
                   file, matched>>

NextName == NameStep

SpecName == InitName /\ [][NextName]_vars

----------------------------------------------------------------------------
(* What the inputs mean, read off the pieces they were assembled from.     *)

\* the combined-date string is three '/'-separated integers
GenWellFormed ==
    Len(gen.date) = 3 /\ \A i \in 1..3 : gen.date[i].int

\* the file's modification date equals the three integers, day/month/year
GenDateEq ==
    /\ file.ModTime.day = gen.date[1].val
    /\ file.ModTime.month = gen.date[2].val
    /\ file.ModTime.year = gen.date[3].val

\* the map keys the extension option stands for
NormSet == {gen.ext[i].norm : i \in 1..Len(gen.ext)}

\* the file passes the extension dimension
GenExtPass == cfg.Extensions = Str0 \/ gen.name.low \in NormSet

\* every independent field that is set equals the file's field
FieldsPass ==
    /\ cfg.Year = 0 \/ cfg.Year = file.ModTime.year
    /\ cfg.Month = 0 \/ cfg.Month = file.ModTime.month
    /\ cfg.Day = 0 \/ cfg.Day = file.ModTime.day

\* C1: with a well-formed combined-date string, a file that passes the
\* extension check is accepted exactly when its day, month and year equal
\* the three components, whatever the independent fields hold.
C1_AllDateSoleCriterion ==
    (pc = "matched" /\ GenWellFormed /\ GenExtPass) => (matched <=> GenDateEq)

\* C1 witness: a file accepted on the combined date although the
\* independent day and month fields are set and differ from its date.
C1_Witness ==
    /\ pc = "matched" /\ GenWellFormed /\ GenExtPass /\ matched
    /\ cfg.Day # 0 /\ cfg.Day # file.ModTime.day
    /\ cfg.Month # 0 /\ cfg.Month # file.ModTime.month

\* C2: with the combined-date string absent, the date dimension passes
\* exactly when every non-zero independent field equals the file's field.
C2_PartialFieldsAnd ==
    (pc = "matched" /\ cfg.AllDate = Str0 /\ GenExtPass) => (matched <=> FieldsPass)

\* C2 witness: year and month both set, the year equal and the month not,
\* and the file rejected.
C2_Witness ==
    /\ pc = "matched" /\ cfg.AllDate = Str0 /\ GenExtPass
    /\ cfg.Year # 0 /\ cfg.Year = file.ModTime.year
    /\ cfg.Month # 0 /\ cfg.Month # file.ModTime.month
    /\ ~matched

\* C3: with a non-empty extension list a file is accepted only if its
\* lower-cased extension is a key of the map (and the date passes); with an
\* empty list the extension never decides.
C3_ExtensionFilter ==
    pc = "matched" =>
        IF cfg.Extensions # Str0
        THEN matched <=> (gen.name.low \in NormSet /\ FieldsPass)
        ELSE matched <=> FieldsPass

\* C3 witness: a file whose date passes, rejected for its extension alone.
C3_Witness ==
    /\ pc = "matched" /\ cfg.Extensions # Str0
    /\ gen.name.low \notin NormSet /\ FieldsPass /\ ~matched

\* C7 (as claimed): a three-part combined-date string with a part that is no
\* integer is not used, and the independent fields decide.
C7_NonIntegerFallsBack ==
    (pc = "matched" /\ Len(gen.date) = 3 /\ \E i \in 1..3 : ~gen.date[i].int)
        => (matched <=> (GenExtPass /\ FieldsPass))

\* C8: a combined-date string that is present but has not exactly three
\* parts is ignored: the result is the one for the same configuration with
\* the string absent, which is the independent-field result.
C8_MalformedIgnored ==
    (pc = "matched" /\ cfg.AllDate # Str0 /\ Len(gen.date) # 3) =>
        /\ matched = isMatch(file, [cfg EXCEPT !.AllDate = Str0], exts)
        /\ matched <=> (GenExtPass /\ FieldsPass)

\* C8 witness: a two-part string, and a file accepted on a set year field.
C8_Witness ==
    /\ pc = "matched" /\ cfg.AllDate # Str0 /\ Len(gen.date) = 2
    /\ cfg.Year # 0 /\ matched

----------------------------------------------------------------------------
(* The traversals, the exit status and the report file.                    *)

\* the scan has returned to main
ScanOver == pc = "scanned" \/ (pc = "done" /\ rootState # "missing")

\* p is an entry that is no directory, whose metadata can be read and which
\* isMatch accepts
Matching(p) ==
    /\ p # <<>> /\ ~fs[p].isDir /\ ~fs[p].err
    /\ isMatch(InfoOf(p), cfg, PrepareExts(cfg.Extensions))

\* the target directory and every directory between it and p can be read
Accessible(p) ==
    /\ rootState = "ok"
    /\ \A k \in 0..(Len(p) - 1) : ~fs[SubSeq(p, 1, k)].err

Reported(p) == \E i \in 1..Len(results) : results[i].Path = p

WasVisited(p) == \E i \in 1..Len(visited) : visited[i].path = p

\* C4 (as claimed): a shallow scan reports only matching direct children,
\* and a deep scan of a readable target directory reports every matching
\* file at any depth.
C4_EveryFileAtAnyDepth ==
    /\ ~cfg.Recursive =>
           \A i \in 1..Len(results) :
               Len(results[i].Path) = 1 /\ Matching(results[i].Path)
    /\ (cfg.Recursive /\ ScanOver /\ ~RootUnreadable) =>
           \A p \in DOMAIN fs : Matching(p) => Reported(p)

\* C4 (amended): a shallow scan reports only matching direct children, and
\* a deep scan reports every matching file at any depth that lies in no
\* directory whose reading failed.
C4_ShallowDeep ==
    /\ ~cfg.Recursive =>
           \A i \in 1..Len(results) :
               Len(results[i].Path) = 1 /\ Matching(results[i].Path)
    /\ (cfg.Recursive /\ ScanOver) =>
           \A p \in DOMAIN fs : (Matching(p) /\ Accessible(p)) => Reported(p)

\* C4 witness: a deep scan that has reported a file of a subdirectory.
C4_Witness ==
    /\ cfg.Recursive /\ ScanOver
    /\ \E i \in 1..Len(results) : Len(results[i].Path) >= 2

\* the subdirectories the walk reached and could not read
FailedDirs ==
    {d \in DOMAIN fs : d # <<>> /\ fs[d].isDir /\ fs[d].err /\ Accessible(d)}

\* C5: when reading a subdirectory fails during a deep scan, the scan goes
\* on and returns no error, the entries beside the failed directory are all
\* walked, and every matching file outside the failed branches is reported.
C5_OnlyBranchPruned ==
    (cfg.Recursive /\ ScanOver /\ FailedDirs # {}) =>
        /\ ~scanErr
        /\ \A d \in FailedDirs : \A q \in DOMAIN fs :
               (q # <<>> /\ Parent(q) = Parent(d)) => WasVisited(q)
        /\ \A p \in DOMAIN fs : (Matching(p) /\ Accessible(p)) => Reported(p)

\* C5 witness: a failed subdirectory, and a matching file reported from a
\* sibling subdirectory that is walked after it.
C5_Witness ==
    /\ cfg.Recursive /\ pc = "done"
    /\ \E d \in FailedDirs : \E p \in DOMAIN fs :
           /\ Len(p) = Len(d) + 1 /\ Parent(Parent(p)) = Parent(d)
           /\ NameLess(Last(d), Last(Parent(p)))
           /\ Matching(p) /\ Reported(p)

\* C6 (as claimed): the status is non-zero exactly when the target directory
\* does not exist or cannot be read, in either mode.
C6_ExitStatus ==
    pc = "done" => (exitCode # 0 <=> (rootState = "missing" \/ RootUnreadable))

\* C9 (as claimed): with format json or md and a scan (of a readable target
\* directory) without a fatal error the report file exists afterwards,
\* whatever the number of matches.
C9_ReportAlwaysCreated ==
    (pc = "done" /\ cfg.OutputFormat \in {FmtJSON, FmtMD}
        /\ rootState = "ok" /\ ~RootUnreadable /\ ~scanErr)
    => outFile = "report"

\* C9 (amended): with format json or md and a scan without a fatal error,
\* the report file is written, in place of any file of that name, when at
\* least one file matched and os.Create succeeds; with no match no report
\* is written.
C9_ReportWhenMatches ==
    (pc = "done" /\ cfg.OutputFormat \in {FmtJSON, FmtMD}
        /\ rootState # "missing" /\ ~scanErr)
    => /\ (Len(results) > 0 /\ ~createErr) => outFile = "report"
       /\ Len(results) = 0 => outFile # "report"

\* C9 witness: a Markdown run with a match that has written its report.
C9_Witness ==
    /\ pc = "done" /\ cfg.OutputFormat = FmtMD /\ ~scanErr
    /\ Len(results) > 0 /\ ~createErr /\ outFile = "report"

\* C10 (as claimed): the scanned count is the number of visited entries that
\* are no directory and whose metadata was read.
C10_ScannedCount ==
    ScanOver =>
        scannedCount =
            Cardinality({i \in 1..Len(visited) :
                            ~visited[i].isDir /\ visited[i].infoOK})

----------------------------------------------------------------------------
(* The generated report name.                                              *)

\* the token of the name: the entries of the option as typed, joined by
\* underscores, or the sentinel when there is no filter
NameToken ==
    IF cfg.Extensions = Str0 THEN <<"a", "l", "l">>
    ELSE JoinWith(Texts(gen.ext), "_")

\* the suffix of the chosen file-producing format
NameSuffix ==
    IF cfg.OutputFormat = FmtJSON THEN <<"j", "s", "o", "n">> ELSE <<"m", "d">>

----------------------------------------------------------------------------
(* The result list against the order of traversal.                         *)

\* the entry at path p as the scan is handed it
EntryAt(p) ==
    [path |-> p, isDir |-> fs[p].isDir, infoOK |-> ~fs[p].isDir /\ ~fs[p].err]

\* depth-first enumeration below p: each entry, a readable directory being
\* followed at once by the enumeration of its own entries
RECURSIVE PreorderAll(_)
PreorderAll(ps) ==
    IF ps = <<>> THEN <<>>
    ELSE LET p == Head(ps)
         IN  <<EntryAt(p)>>
             \o (IF fs[p].isDir /\ ~fs[p].err
                 THEN LET kids == ReadDir(p)
                      IN  PreorderAll([i \in 1..Len(kids) |-> kids[i].path])
                 ELSE <<>>)
             \o PreorderAll(Tail(ps))

\* the entries a complete scan is handed, in enumeration order
Enumeration ==
    IF cfg.Recursive
    THEN IF rootState = "ok" THEN PreorderAll(<< <<>> >>) ELSE <<>>
    ELSE IF RootUnreadable THEN <<>>
         ELSE LET kids == ReadDir(<<>>)
              IN  [i \in 1..Len(kids) |-> EntryAt(kids[i].path)]

\* the record of an accepted entry
RecordOf(p) == [Name |-> Last(p), Path |-> p, ModTime |-> fs[p].mod]

\* the records of the entries of vs that are no directory, whose metadata
\* was read and that isMatch accepts, in the order of vs
RECURSIVE Accepted(_)
Accepted(vs) ==
    IF vs = <<>> THEN <<>>
    ELSE (IF vs[1].infoOK /\ Matching(vs[1].path)
          THEN <<RecordOf(vs[1].path)>> ELSE <<>>)
         \o Accepted(Tail(vs))

\* C12: at every point of a scan the entries visited so far are an initial
\* piece of the enumeration, and the result list is exactly the accepted
\* ones among them, in that order, each once and none a directory.
C12_ResultsInTraversalOrder ==
    pc \in {"flat", "walk", "scanned", "done"} =>
        /\ LET all == Enumeration
           IN  /\ Len(visited) <= Len(all)
               /\ visited = SubSeq(all, 1, Len(visited))
               /\ ScanOver => visited = all
        /\ results = Accepted(visited)
        /\ \A i \in 1..Len(results) : ~fs[results[i].Path].isDir
        /\ \A i, j \in 1..Len(results) : results[i] = results[j] => i = j

\* C12 witness: a deep scan under way that has walked into a subdirectory
\* and reported a file of it, with entries of the enumeration still to come.
C12_Witness ==
    /\ cfg.Recursive /\ pc = "walk"
    /\ Len(results) = 1 /\ Len(results[1].Path) = 2
    /\ \E i \in 1..Len(visited) : visited[i].isDir /\ visited[i].path # <<>>
    /\ Len(visited) < Len(Enumeration)

====
